---- MODULE Spec2Model ----
(***************************************************************************)
(* Resumable batch enrichment of a board-game CSV.                         *)
(*                                                                         *)
(* Batch Runner  : scripts/enrich-boardgames.ts (read input, merge the     *)
(*                 existing output forward, fetch the next `limit` missing *)
(*                 rows, rewrite the whole output file).                   *)
(* Loop Driver   : scripts/loop-enrich-boardgames.ts (spawn the Batch      *)
(*                 Runner until nothing is missing, SIGINT aware).         *)
(*                                                                         *)
(* A CSV cell is a string, a row is a function from column name to cell,   *)
(* a file is [exists, malformed, rows].  An optional value of the code     *)
(* (`undefined`, `null`) that is an object is a set of at most one         *)
(* element; an optional cell is the token UNDEF.                           *)
(***************************************************************************)
EXTENDS Integers, Sequences, FiniteSets, TLC

\* ------------------------------------------------------------------ bounds
MaxRows == 2
MaxLimit == 1
MaxRuns == 2
MaxInterval == 2

\* --------------------------------------------------------------- constants
ENRICH_FIELDS ==
  << "description", "minplayers", "maxplayers", "playingtime",
     "minage", "categories", "mechanics", "primaryName" >>

EnrichSet == { ENRICH_FIELDS[i] : i \in 1..Len(ENRICH_FIELDS) }

DefaultBatchLimit == 25
DefaultLoopLimit == 100

UNDEF == "<undefined>"

\* ----------------------------------------------------------------- helpers
Min(a, b) == IF a < b THEN a ELSE b

Max(a, b) == IF a < b THEN b ELSE a

SetMax(S) == CHOOSE m \in S : \A n \in S : n <= m

\* String.prototype.trim on the cell texts of the model: the only texts with
\* leading or trailing blanks are " " and " 1".
Trim(s) == CASE s = " " -> ""
             [] s = " 1" -> "1"
             [] OTHER -> s

\* String(r.id).trim(): a row without an id column yields "undefined".
IdOf(r) == Trim(IF "id" \in DOMAIN r THEN r["id"] ELSE "undefined")

\* ------------------------------------------------------------------- files
AbsentFile == [exists |-> FALSE, malformed |-> FALSE, rows |-> << >>]

MalformedFile == [exists |-> TRUE, malformed |-> TRUE, rows |-> << >>]

FileOf(rs) == [exists |-> TRUE, malformed |-> FALSE, rows |-> rs]

\* csv-parse with columns: true, trim: true: every cell is trimmed.
readCsv(file) ==
  [i \in 1..Len(file.rows) |->
     [k \in DOMAIN file.rows[i] |-> Trim(file.rows[i][k])]]

\* The header is the union of the keys of all rows; a row lacking a column is
\* written with an empty cell.
Headers(rs) == UNION { DOMAIN rs[i] : i \in 1..Len(rs) }

writeCsvRows(rs) ==
  [i \in 1..Len(rs) |->
     [h \in Headers(rs) |-> IF h \in DOMAIN rs[i] THEN rs[i][h] ELSE ""]]

isRowEnriched(row) ==
  Trim(IF "description" \in DOMAIN row THEN row["description"] ELSE "") # ""

\* Mutant: nothing of the existing row is merged forward.
mergeEnrichedNoExisting(base, existing) ==
  [f \in (DOMAIN base) \cup EnrichSet |->
     IF f \in DOMAIN base THEN base[f] ELSE ""]

\* Mutant: every non-empty field of the existing row is merged forward.
mergeEnrichedAllFields(base, existing) ==
  LET e == CHOOSE r \in existing : TRUE
      kept == IF existing = {} THEN {}
              ELSE { f \in DOMAIN e : e[f] # "" }
  IN [f \in (DOMAIN base) \cup EnrichSet \cup kept |->
        IF f \in kept THEN e[f]
        ELSE IF f \in DOMAIN base THEN base[f]
        ELSE ""]

\* existing: the set holding the existing row, or {} for `undefined`.
mergeEnriched(base, existing) ==
  LET e == CHOOSE r \in existing : TRUE
      kept == IF existing = {} THEN {}
              ELSE { f \in EnrichSet : f \in DOMAIN e /\ e[f] # "" }
  IN [f \in (DOMAIN base) \cup EnrichSet |->
        IF f \in kept THEN e[f]
        ELSE IF f \in DOMAIN base THEN base[f]
        ELSE ""]

\* new Map(rows.map(r => [String(r.id).trim(), r])).get(id): the last row wins.
MapGet(rs, id) ==
  LET hits == { i \in 1..Len(rs) : IdOf(rs[i]) = id }
  IN IF hits = {} THEN {} ELSE { rs[SetMax(hits)] }

\* ----------------------------------------------------------- remote lookup
\* A parsed XML document is [boardgame |-> <<bg, ...>>]: the empty sequence is
\* a document without boardgames.boardgame.  A bg is a function from tag to
\* text; `name` holds a sequence of [primary, text] nodes and the category
\* and mechanic tags hold sequences of texts (toArray of the parsed value).
FullDoc ==
  [boardgame |->
     << [name |-> << [primary |-> FALSE, text |-> "Alt"],
                     [primary |-> TRUE, text |-> "Game"] >>,
         description |-> "A", minplayers |-> "2", maxplayers |-> "4",
         playingtime |-> "30", age |-> "5",
         boardgamecategory |-> << "Card", "Dice" >>,
         boardgamemechanic |-> << "Draft" >>] >>]

\* A successful answer without a description.
NoDescDoc ==
  [boardgame |->
     << [name |-> << [primary |-> FALSE, text |-> "Alt"] >>,
         minage |-> "5"] >>]

\* A successful answer with a description and nothing else usable.
SparseDoc == [boardgame |-> << [description |-> "B", minplayers |-> "0"] >>]

NoGameDoc == [boardgame |-> << >>]

\* The outcomes of fetchBggXml: null ({}) after the retries are exhausted, or
\* the parsed document.
FetchOutcomes == { {} } \cup { {d} : d \in {FullDoc, NoDescDoc, SparseDoc, NoGameDoc} }

\* o?.[k]
Get(o, k) == IF k \in DOMAIN o THEN o[k] ELSE UNDEF

\* v ?? d
Coalesce(v, d) == IF v = UNDEF THEN d ELSE v

\* Number(v ?? "") || undefined on the texts of the model.
NumberOrUndefined(v) == IF v \in {"2", "4", "5", "30"} THEN v ELSE UNDEF

\* toArray(bg?.[k]) for the sequence-valued tags.
toArray(bg, k) == IF k \in DOMAIN bg THEN bg[k] ELSE << >>

RECURSIVE Join(_, _)
Join(xs, sep) ==
  IF xs = << >> THEN ""
  ELSE IF Len(xs) = 1 THEN xs[1]
  ELSE xs[1] \o sep \o Join(Tail(xs), sep)

Filtered(xs) == SelectSeq(xs, LAMBDA t : t # "")

PrimaryName(nameNodes) ==
  LET prim == { i \in 1..Len(nameNodes) : nameNodes[i].primary }
  IN IF prim # {} THEN nameNodes[CHOOSE i \in prim : \A j \in prim : i <= j].text
     ELSE IF nameNodes # << >> THEN nameNodes[1].text
     ELSE ""

\* Returns {} for null, else the set holding the enrichment record.
extractEnrichment(id, xmlRoot) ==
  IF xmlRoot.boardgame = << >> THEN {}
  ELSE
    LET bg == xmlRoot.boardgame[1]
    IN { [id |-> id,
          primaryName |-> PrimaryName(toArray(bg, "name")),
          description |-> Coalesce(Get(bg, "description"), ""),
          minplayers |-> NumberOrUndefined(Coalesce(Get(bg, "minplayers"), "")),
          maxplayers |-> NumberOrUndefined(Coalesce(Get(bg, "maxplayers"), "")),
          playingtime |-> NumberOrUndefined(Coalesce(Get(bg, "playingtime"), "")),
          minage |-> NumberOrUndefined(
                       Coalesce(Coalesce(Get(bg, "age"), Get(bg, "minage")), "")),
          categories |-> Join(Filtered(toArray(bg, "boardgamecategory")), "; "),
          mechanics |-> Join(Filtered(toArray(bg, "boardgamemechanic")), "; ")] }

\* const enrich = xml ? extractEnrichment(id, xml) : null
EnrichOf(id, xml) ==
  IF xml = {} THEN {} ELSE extractEnrichment(id, CHOOSE d \in xml : TRUE)

\* Mutant: a field the lookup did not return keeps its merged value.
OverwriteKeepMerged(row, enrich) ==
  [f \in (DOMAIN row) \cup EnrichSet |->
     IF f \in EnrichSet /\ enrich # {}
          /\ (CHOOSE e \in enrich : TRUE)[f] \notin {UNDEF, ""}
     THEN (CHOOSE e \in enrich : TRUE)[f]
     ELSE IF f \in DOMAIN row THEN row[f] ELSE ""]

\* Mutant: a lookup without usable data leaves the row as it was.
OverwriteSkipNull(row, enrich) ==
  IF enrich = {} THEN row
  ELSE [f \in (DOMAIN row) \cup EnrichSet |->
          IF f \in EnrichSet
          THEN Coalesce((CHOOSE e \in enrich : TRUE)[f], "")
          ELSE row[f]]

\* { ...row, f: enrich?.f ?? "" for the eight fields }
Overwrite(row, enrich) ==
  [f \in (DOMAIN row) \cup EnrichSet |->
     IF f \in EnrichSet
     THEN (IF enrich = {} THEN ""
           ELSE Coalesce((CHOOSE e \in enrich : TRUE)[f], ""))
     ELSE row[f]]

\* Math.max(0, parseInt(limitStr, 10) || 25): a is the parsed argument,
\* [nan |-> TRUE] for an absent or malformed one.
BatchLimit(a) == Max(0, IF a.nan \/ a.n = 0 THEN DefaultBatchLimit ELSE a.n)

\* parseInt(getArg("limit", "100"), 10) || 100
LoopLimit(a) == IF a.nan \/ a.n = 0 THEN DefaultLoopLimit ELSE a.n

NanArg == [nan |-> TRUE, n |-> 0]

NumArg(k) == [nan |-> FALSE, n |-> k]

\* fetchBggXml gives up after this many attempts.
MAX_ATTEMPTS == 6

\* ------------------------------------------------------------------- state
VARIABLES
  inputFile,         \* the --input file
  outputFile,        \* the --output file
  limitArg,          \* the Batch Runner's parsed --limit argument
  lookupOk,          \* environment: every lookup answers FullDoc
  br_pc,             \* Batch Runner: "none", "start", "fetch", "write", "done"
  br_code,           \* its exit code: "0", "1", or "null" (closed by a signal)
  rows,              \* readCsv(input)
  existingRows,      \* readCsv(output) at the start of the run, << >> if none
  enriched,          \* the working rows
  toProcess,         \* the work batch: indices into enriched
  batchIdx,          \* rows of the work batch already handled
  lookups,           \* the calls of fetchBggXml in this run, in call order:
                     \*   [i: row index, id: argument, enrich: the `enrich`
                     \*   local computed from what it returned]
  prevOutput,        \* the output file as the run found it
  runs,              \* Batch Runner runs started by hand
  ld_pc,             \* Loop Driver: "off", "countBefore", "awaitChild",
                     \*   "countAfter", "sleep", "finished"
  ld_how,            \* which break or rejection ended the loop
  ld_exit,           \* the Loop Driver's exit code, "none" while it runs
  ldLimitArg,        \* the Loop Driver's parsed --limit argument
  intervalSec,       \* the Loop Driver's --interval
  stoppingRequested,
  childRunning,
  stopAfterChild,
  code,              \* what runEnrichOnce resolved to, "none" before the first
  s,                 \* the countdown of the inter-batch wait
  f_pc,              \* one fetchBggXml call: "idle", "request", "sleep",
                     \*   "returned"
  attempt,           \* its `attempt` parameter
  requests,          \* the outcome of each fetch(url) it issued, in order
  waits,             \* the seconds of each sleep it awaited, in order
  f_result           \* what the call resolved to: "none", "data", "null"

envVars == << inputFile, limitArg, lookupOk, ldLimitArg, intervalSec >>

brVars ==
  << br_pc, br_code, rows, existingRows, enriched, toProcess, batchIdx,
     lookups, prevOutput >>

ldVars ==
  << ld_pc, ld_how, ld_exit, stoppingRequested, childRunning, stopAfterChild,
     code, s >>

fxVars == << f_pc, attempt, requests, waits, f_result >>

vars == << envVars, outputFile, brVars, runs, ldVars, fxVars >>

\* ------------------------------------------------------------ Batch Runner
\* Mutant: rows without an id are filtered out before the merge.
MergeAllSkipEmpty(rs, ex) ==
  LET kept == SelectSeq(rs, LAMBDA r : IdOf(r) # "")
  IN [i \in 1..Len(kept) |-> mergeEnriched(kept[i], MapGet(ex, IdOf(kept[i])))]

\* Mutant: for a repeated id the first existing row is used, not the last.
MergeAllFirstRow(rs, ex) ==
  [i \in 1..Len(rs) |->
     LET hits == { k \in 1..Len(ex) : IdOf(ex[k]) = IdOf(rs[i]) }
         first == CHOOSE k \in hits : \A m \in hits : k <= m
     IN mergeEnriched(rs[i], IF hits = {} THEN {} ELSE { ex[first] })]

\* rows.map(r => mergeEnriched(r, existingMap.get(String(r.id).trim())))
MergeAll(rs, ex) ==
  [i \in 1..Len(rs) |-> mergeEnriched(rs[i], MapGet(ex, IdOf(rs[i])))]

\* The indices of the rows that fail the completeness signal, ascending.
RECURSIVE MissingFrom(_, _)
MissingFrom(en, i) ==
  IF i > Len(en) THEN << >>
  ELSE IF ~isRowEnriched(en[i]) THEN << i >> \o MissingFrom(en, i + 1)
  ELSE MissingFrom(en, i + 1)

missingIndices(en) == MissingFrom(en, 1)

\* missingIndices.slice(0, limit)
SelectBatch(missing, limit) == SubSeq(missing, 1, Min(limit, Len(missing)))

\* The process is started: by hand (BRStart) or by the Loop Driver.
BRReset ==
  /\ br_pc' = "start"
  /\ br_code' = "none"
  /\ rows' = << >>
  /\ existingRows' = << >>
  /\ enriched' = << >>
  /\ toProcess' = << >>
  /\ batchIdx' = 0
  /\ lookups' = << >>
  /\ prevOutput' = outputFile

\* The child process is gone and its memory with it; br_code keeps what
\* "close" reported until the next child is spawned.
BRGone ==
  /\ br_pc' = "none"
  /\ UNCHANGED br_code
  /\ rows' = << >>
  /\ existingRows' = << >>
  /\ enriched' = << >>
  /\ toProcess' = << >>
  /\ batchIdx' = 0
  /\ lookups' = << >>
  /\ prevOutput' = outputFile

\* The script is run by hand.
BRStart ==
  /\ ld_pc = "off"
  /\ br_pc = "none"
  /\ runs' = runs + 1
  /\ BRReset
  /\ UNCHANGED << envVars, outputFile, ldVars >>
  /\ UNCHANGED fxVars

\* It is run again on the same files after the previous run ended.
BRRerun ==
  /\ ld_pc = "off"
  /\ br_pc = "done"
  /\ runs < MaxRuns
  /\ runs' = runs + 1
  /\ BRReset
  /\ UNCHANGED << envVars, outputFile, ldVars >>
  /\ UNCHANGED fxVars

\* main up to the fetch loop: argument parsing, the input check, both reads,
\* the merge and the selection of the work batch.
BRMain ==
  /\ br_pc = "start"
  /\ IF ~inputFile.exists \/ inputFile.malformed
     THEN /\ br_pc' = "done"
          /\ br_code' = "1"
          /\ UNCHANGED << rows, existingRows, enriched, toProcess >>
     ELSE LET rs == readCsv(inputFile)
              ex == IF outputFile.exists /\ ~outputFile.malformed
                    THEN readCsv(outputFile) ELSE << >>
              en == MergeAll(rs, ex)
          IN /\ rows' = rs
             /\ existingRows' = ex
             /\ enriched' = en
             /\ toProcess' = SelectBatch(missingIndices(en), BatchLimit(limitArg))
             /\ br_pc' = "fetch"
             /\ UNCHANGED br_code
  /\ UNCHANGED << batchIdx, lookups, prevOutput >>
  /\ UNCHANGED << envVars, outputFile, runs, ldVars >>
  /\ UNCHANGED fxVars

\* Mutant: the fetch loop without `if (!id) continue`.
BRFetchNoSkip ==
  /\ br_pc = "fetch"
  /\ batchIdx < Len(toProcess)
  /\ LET i == toProcess[batchIdx + 1]
         row == enriched[i]
         id == IdOf(row)
     IN \E xml \in (IF lookupOk THEN { {FullDoc} } ELSE FetchOutcomes) :
          /\ enriched' =
               [enriched EXCEPT ![i] = Overwrite(row, EnrichOf(id, xml))]
          /\ lookups' =
                    Append(lookups,
                           [i |-> i, id |-> id, enrich |-> EnrichOf(id, xml)])
  /\ batchIdx' = batchIdx + 1
  /\ UNCHANGED << br_pc, br_code, rows, existingRows, toProcess, prevOutput >>
  /\ UNCHANGED << envVars, outputFile, runs, ldVars >>
  /\ UNCHANGED fxVars

\* One iteration of the fetch loop.
BRFetch ==
  /\ br_pc = "fetch"
  /\ batchIdx < Len(toProcess)
  /\ LET i == toProcess[batchIdx + 1]
         row == enriched[i]
         id == IdOf(row)
     IN IF id = ""
        THEN UNCHANGED << enriched, lookups >>
        ELSE \E xml \in (IF lookupOk THEN { {FullDoc} } ELSE FetchOutcomes) :
               /\ enriched' =
                    [enriched EXCEPT ![i] = Overwrite(row, EnrichOf(id, xml))]
               /\ lookups' =
                    Append(lookups,
                           [i |-> i, id |-> id, enrich |-> EnrichOf(id, xml)])
  /\ batchIdx' = batchIdx + 1
  /\ UNCHANGED << br_pc, br_code, rows, existingRows, toProcess, prevOutput >>
  /\ UNCHANGED << envVars, outputFile, runs, ldVars >>
  /\ UNCHANGED fxVars

\* writeCsv: fs.createWriteStream(filePath) opens the output for writing in
\* place, which empties it.
BRWriteOpen ==
  /\ br_pc = "fetch"
  /\ batchIdx = Len(toProcess)
  /\ outputFile' = FileOf(<< >>)
  /\ br_pc' = "write"
  /\ UNCHANGED << br_code, rows, existingRows, enriched, toProcess, batchIdx,
                  lookups, prevOutput >>
  /\ UNCHANGED << envVars, runs, ldVars >>
  /\ UNCHANGED fxVars

\* for (const row of rows) stringifier.write(row), piped into the file.
BRWriteRow ==
  /\ br_pc = "write"
  /\ Len(outputFile.rows) < Len(enriched)
  /\ outputFile' =
       FileOf(Append(outputFile.rows,
                     writeCsvRows(enriched)[Len(outputFile.rows) + 1]))
  /\ UNCHANGED brVars
  /\ UNCHANGED << envVars, runs, ldVars >>
  /\ UNCHANGED fxVars

\* writable "finish": writeCsv resolves, main returns, the process exits 0.
BRWriteEnd ==
  /\ br_pc = "write"
  /\ Len(outputFile.rows) = Len(enriched)
  /\ br_pc' = "done"
  /\ br_code' = "0"
  /\ UNCHANGED << rows, existingRows, enriched, toProcess, batchIdx, lookups,
                  prevOutput >>
  /\ UNCHANGED << envVars, outputFile, runs, ldVars >>
  /\ UNCHANGED fxVars

\* mkdirSync throws or the stream cannot be opened (unwritable path): the run
\* ends with code 1 before the file is touched.
BROpenFail ==
  /\ br_pc = "fetch"
  /\ batchIdx = Len(toProcess)
  /\ br_pc' = "done"
  /\ br_code' = "1"
  /\ UNCHANGED << rows, existingRows, enriched, toProcess, batchIdx, lookups,
                  prevOutput >>
  /\ UNCHANGED << envVars, outputFile, runs, ldVars >>
  /\ UNCHANGED fxVars

\* The stringifier or the stream fails while rows are being written: the
\* promise rejects (or the error is unhandled) and the process exits 1.  The
\* file keeps what reached it; cut inside a row it no longer parses.
BRWriteFail ==
  /\ br_pc = "write"
  /\ \E cut \in BOOLEAN :
       outputFile' = [outputFile EXCEPT !.malformed = cut]
  /\ br_pc' = "done"
  /\ br_code' = "1"
  /\ UNCHANGED << rows, existingRows, enriched, toProcess, batchIdx, lookups,
                  prevOutput >>
  /\ UNCHANGED << envVars, runs, ldVars >>
  /\ UNCHANGED fxVars

\* The process is ended by a signal: "close" reports no exit code.
BRKilled ==
  /\ br_pc \in {"start", "fetch", "write"}
  /\ br_pc' = "done"
  /\ br_code' = "null"
  /\ UNCHANGED << rows, existingRows, enriched, toProcess, batchIdx, lookups,
                  prevOutput >>
  /\ UNCHANGED << envVars, outputFile, runs, ldVars >>
  /\ UNCHANGED fxVars

\* ------------------------------------------------------------- fetchBggXml
\* What one `await fetch(url)` with the reading and parsing of its body comes
\* to: a success status with a parsed body, a non-success status, or a throw
\* (transport failure, body not readable).
RequestOutcomes == {"ok", "notOk", "throw"}

\* Mutant: one attempt too many.
MayRetryInclusive(a) == a <= MAX_ATTEMPTS

\* if (attempt < MAX_ATTEMPTS)
MayRetry(a) == a < MAX_ATTEMPTS

\* sleep(1000 * attempt), in seconds.
Backoff(a) == a

FXIdle ==
  /\ f_pc = "idle"
  /\ attempt = 0
  /\ requests = << >>
  /\ waits = << >>
  /\ f_result = "none"

\* fetchBggXml(id): attempt defaults to 1.
FXCall ==
  /\ f_pc = "idle"
  /\ f_pc' = "request"
  /\ attempt' = 1
  /\ UNCHANGED << requests, waits, f_result >>
  /\ UNCHANGED << envVars, outputFile, brVars, runs, ldVars >>

\* The request of this attempt settles: data on success, else a retry after
\* the backoff while attempts are left, else null.
FXRequest ==
  /\ f_pc = "request"
  /\ \E o \in RequestOutcomes :
       /\ requests' = Append(requests, o)
       /\ IF o = "ok"
          THEN f_pc' = "returned" /\ f_result' = "data"
          ELSE IF MayRetry(attempt)
          THEN f_pc' = "sleep" /\ UNCHANGED f_result
          ELSE f_pc' = "returned" /\ f_result' = "null"
  /\ UNCHANGED << attempt, waits >>
  /\ UNCHANGED << envVars, outputFile, brVars, runs, ldVars >>

\* The backoff sleep settles: return fetchBggXml(id, attempt + 1).
FXSleepDone ==
  /\ f_pc = "sleep"
  /\ waits' = Append(waits, Backoff(attempt))
  /\ attempt' = attempt + 1
  /\ f_pc' = "request"
  /\ UNCHANGED << requests, f_result >>
  /\ UNCHANGED << envVars, outputFile, brVars, runs, ldVars >>

\* ------------------------------------------------------------ initial files
InputIds == {" ", "1", "2"}

PlainRows == { [id |-> i, name |-> "n"] : i \in InputIds }

\* An input file that itself has an enrichment column.
CarryRows == { [id |-> i, name |-> "n", minage |-> "5"] : i \in InputIds }

SeqsUpTo(S, n) == UNION { [1..k -> S] : k \in 0..n }

PlainInputFiles ==
  {AbsentFile, MalformedFile}
    \cup { FileOf(rs) : rs \in SeqsUpTo(PlainRows, MaxRows) }

InputFiles ==
  PlainInputFiles
    \cup { FileOf(rs) : rs \in SeqsUpTo(CarryRows, MaxRows) \ {<< >>} }

\* A row as an earlier run wrote it for id after the lookup answered xml.
SeedRow(id, xml) ==
  Overwrite(mergeEnriched([id |-> id, name |-> "m"], {}), EnrichOf(id, xml))

SeedRows ==
  { SeedRow("1", {FullDoc}), SeedRow("1", {NoDescDoc}), SeedRow("1", {}),
    SeedRow("2", {SparseDoc}) }

\* What the output path may hold before a run: nothing, an unreadable file, or
\* rows written by earlier runs (over this input or another one).
SeedOutputs ==
  {AbsentFile, MalformedFile}
    \cup { FileOf(rs) : rs \in SeqsUpTo(SeedRows, MaxRows) }

BatchArgs == {NanArg} \cup { NumArg(k) : k \in (-1)..MaxLimit }

BRIdle ==
  /\ br_pc = "none"
  /\ br_code = "none"
  /\ rows = << >>
  /\ existingRows = << >>
  /\ enriched = << >>
  /\ toProcess = << >>
  /\ batchIdx = 0
  /\ lookups = << >>
  /\ prevOutput = outputFile
  /\ runs = 0

LDOff ==
  /\ ld_pc = "off"
  /\ ld_how = "none"
  /\ ld_exit = "none"
  /\ ldLimitArg = NanArg
  /\ intervalSec = 1
  /\ stoppingRequested = FALSE
  /\ childRunning = FALSE
  /\ stopAfterChild = FALSE
  /\ code = "none"
  /\ s = 0

\* ------------------------------------- the Batch Runner run by hand, any I/O
InitBatch ==
  /\ inputFile \in InputFiles
  /\ outputFile \in SeedOutputs
  /\ limitArg \in BatchArgs
  /\ lookupOk = FALSE
  /\ BRIdle
  /\ LDOff
  /\ FXIdle

NextBatch ==
  \/ BRStart
  \/ BRMain
  \/ BRFetch
  \/ BRWriteOpen
  \/ BRWriteRow
  \/ BRWriteEnd
  \/ BROpenFail
  \/ BRWriteFail
  \/ BRKilled

SpecBatch == InitBatch /\ [][NextBatch]_vars

\* ------------------------------------------------------------- Loop Driver
\* The Loop Driver's readCsv resolves [] for a file that does not exist.
ldReadCsv(file) == IF file.exists THEN readCsv(file) ELSE << >>

\* Mutant: rows without an id are counted too.
RECURSIVE CountFromAnyId(_, _, _)
CountFromAnyId(inputRows, outRows, i) ==
  IF i > Len(inputRows) THEN 0
  ELSE LET id == IdOf(inputRows[i])
           o == MapGet(outRows, id)
           d == IF o = {} THEN ""
                ELSE Trim(Coalesce(Get(CHOOSE r \in o : TRUE, "description"), ""))
       IN (IF d = "" THEN 1 ELSE 0)
            + CountFromAnyId(inputRows, outRows, i + 1)

RECURSIVE CountFrom(_, _, _)
CountFrom(inputRows, outRows, i) ==
  IF i > Len(inputRows) THEN 0
  ELSE LET id == IdOf(inputRows[i])
           o == MapGet(outRows, id)
           d == IF o = {} THEN ""
                ELSE Trim(Coalesce(Get(CHOOSE r \in o : TRUE, "description"), ""))
       IN (IF id # "" /\ d = "" THEN 1 ELSE 0)
            + CountFrom(inputRows, outRows, i + 1)

countMissing(input, output) ==
  CountFrom(ldReadCsv(input), ldReadCsv(output), 1)

\* countMissing rejects when either file does not parse; main then rejects and
\* main().catch exits 1.
CountRejects == inputFile.malformed \/ outputFile.malformed

LDFinish(how, exit) ==
  /\ ld_pc' = "finished"
  /\ ld_how' = how
  /\ ld_exit' = exit

\* Mutant: a close without a code counts as success (code ?? 0).
runEnrichOnceNullOk(closed) == IF closed = "null" THEN "0" ELSE closed

\* child.on("close", (code) => resolve(code ?? 1))
runEnrichOnce(closed) == IF closed = "null" THEN "1" ELSE closed

\* process.on("SIGINT", ...): the handler runs between two steps of main.
\* A repeated signal that finds its flag set changes nothing and is left out.
Sigint ==
  /\ ld_pc \notin {"off", "finished"}
  /\ IF childRunning THEN ~stopAfterChild ELSE ~stoppingRequested
  /\ IF childRunning
     THEN /\ stopAfterChild' = TRUE
          /\ UNCHANGED stoppingRequested
     ELSE /\ stoppingRequested' = TRUE
          /\ UNCHANGED stopAfterChild
  /\ UNCHANGED << ld_pc, ld_how, ld_exit, childRunning, code, s >>
  /\ UNCHANGED << envVars, outputFile, brVars, runs >>
  /\ UNCHANGED fxVars

\* The await of countMissing before a batch settles; on a non-zero count the
\* batch is spawned.
LDCountBefore ==
  /\ ld_pc = "countBefore"
  /\ IF CountRejects
     THEN /\ LDFinish("error", "1")
          /\ UNCHANGED << childRunning, limitArg, brVars >>
     ELSE IF countMissing(inputFile, outputFile) = 0
     THEN /\ LDFinish("allEnriched", "0")
          /\ UNCHANGED << childRunning, limitArg, brVars >>
     ELSE /\ childRunning' = TRUE
          /\ limitArg' = NumArg(LoopLimit(ldLimitArg))
          /\ BRReset
          /\ ld_pc' = "awaitChild"
          /\ UNCHANGED << ld_how, ld_exit >>
  /\ UNCHANGED << stoppingRequested, stopAfterChild, code, s >>
  /\ UNCHANGED << inputFile, lookupOk, ldLimitArg, intervalSec, outputFile,
                  runs >>
  /\ UNCHANGED fxVars

\* Mutant: the stopAfterChild check after the batch is missing.
LDChildClosedNoStop ==
  /\ ld_pc = "awaitChild"
  /\ br_pc = "done"
  /\ LET c == runEnrichOnce(br_code)
     IN /\ code' = c
        /\ childRunning' = FALSE
        /\ IF c # "0" THEN LDFinish("childFailed", "0")
           ELSE /\ ld_pc' = "countAfter"
                /\ UNCHANGED << ld_how, ld_exit >>
  /\ BRGone
  /\ UNCHANGED << stoppingRequested, stopAfterChild, s >>
  /\ UNCHANGED << envVars, outputFile, runs >>
  /\ UNCHANGED fxVars

\* Mutant: runEnrichOnce resolves without waiting for the child to close.
LDChildClosedEarly ==
  /\ ld_pc = "awaitChild"
  /\ LET c == runEnrichOnce(IF br_pc = "done" THEN br_code ELSE "0")
     IN /\ code' = c
        /\ childRunning' = FALSE
        /\ IF c # "0" THEN LDFinish("childFailed", "0")
           ELSE IF stopAfterChild THEN LDFinish("stopAfterChild", "0")
           ELSE /\ ld_pc' = "countAfter"
                /\ UNCHANGED << ld_how, ld_exit >>
  /\ BRGone
  /\ UNCHANGED << stoppingRequested, stopAfterChild, s >>
  /\ UNCHANGED << envVars, outputFile, runs >>
  /\ UNCHANGED fxVars

\* The child closed: runEnrichOnce resolves.
LDChildClosed ==
  /\ ld_pc = "awaitChild"
  /\ br_pc = "done"
  /\ LET c == runEnrichOnce(br_code)
     IN /\ code' = c
        /\ childRunning' = FALSE
        /\ IF c # "0" THEN LDFinish("childFailed", "0")
           ELSE IF stopAfterChild THEN LDFinish("stopAfterChild", "0")
           ELSE /\ ld_pc' = "countAfter"
                /\ UNCHANGED << ld_how, ld_exit >>
  /\ BRGone
  /\ UNCHANGED << stoppingRequested, stopAfterChild, s >>
  /\ UNCHANGED << envVars, outputFile, runs >>
  /\ UNCHANGED fxVars

\* The await of countMissing after a batch settles; on a non-zero count the
\* countdown starts.
LDCountAfter ==
  /\ ld_pc = "countAfter"
  /\ IF CountRejects THEN LDFinish("error", "1") /\ UNCHANGED s
     ELSE IF countMissing(inputFile, outputFile) = 0
     THEN LDFinish("complete", "0") /\ UNCHANGED s
     ELSE IF stoppingRequested
     THEN LDFinish("stopBeforeNext", "0") /\ UNCHANGED s
     ELSE /\ s' = Max(1, intervalSec)
          /\ ld_pc' = "sleep"
          /\ UNCHANGED << ld_how, ld_exit >>
  /\ UNCHANGED << stoppingRequested, childRunning, stopAfterChild, code >>
  /\ UNCHANGED << envVars, outputFile, brVars, runs >>
  /\ UNCHANGED fxVars

\* One sleep(1000) of the countdown settles; after the last one the loop
\* starts over and calls countMissing.
LDSleepDone ==
  /\ ld_pc = "sleep"
  /\ IF stoppingRequested
     THEN LDFinish("stopBeforeNext", "0") /\ UNCHANGED s
     ELSE /\ s' = s - 1
          /\ ld_pc' = IF s - 1 > 0 THEN "sleep" ELSE "countBefore"
          /\ UNCHANGED << ld_how, ld_exit >>
  /\ UNCHANGED << stoppingRequested, childRunning, stopAfterChild, code >>
  /\ UNCHANGED << envVars, outputFile, brVars, runs >>
  /\ UNCHANGED fxVars

\* The Loop Driver is started on a fresh output path, an unreadable one, or
\* one row left by an earlier run.
LoopSeedOutputs ==
  {AbsentFile, MalformedFile} \cup { FileOf(<< r >>) : r \in SeedRows }

LoopArgs == {NanArg} \cup { NumArg(k) : k \in 1..MaxLimit }

\* --------------------------- the Loop Driver with its child, any I/O outcome
Init ==
  /\ inputFile \in PlainInputFiles
  /\ outputFile \in LoopSeedOutputs
  /\ limitArg = NanArg
  /\ lookupOk = FALSE
  /\ BRIdle
  /\ ld_pc = "countBefore"
  /\ ld_how = "none"
  /\ ld_exit = "none"
  /\ ldLimitArg \in LoopArgs
  /\ intervalSec = MaxInterval
  /\ stoppingRequested = FALSE
  /\ childRunning = FALSE
  /\ stopAfterChild = FALSE
  /\ code = "none"
  /\ s = 0
  /\ FXIdle

Next ==
  \/ Sigint
  \/ LDCountBefore
  \/ LDChildClosed
  \/ LDCountAfter
  \/ LDSleepDone
  \/ BRMain
  \/ BRFetch
  \/ BRWriteOpen
  \/ BRWriteRow
  \/ BRWriteEnd
  \/ BROpenFail
  \/ BRWriteFail
  \/ BRKilled

Spec == Init /\ [][Next]_vars

\* ------------------- the Batch Runner rerun by hand, every lookup succeeding
InitResume ==
  /\ inputFile \in PlainInputFiles
  /\ outputFile \in LoopSeedOutputs
  /\ limitArg \in LoopArgs
  /\ lookupOk = TRUE
  /\ BRIdle
  /\ LDOff
  /\ FXIdle

NextResume ==
  \/ BRStart
  \/ BRRerun
  \/ BRMain
  \/ BRFetch
  \/ BRWriteOpen
  \/ BRWriteRow
  \/ BRWriteEnd

SpecResume == InitResume /\ [][NextResume]_vars

\* ------- the Batch Runner rerun by hand: any limit argument, any lookup outcome
InitRerun ==
  /\ inputFile \in InputFiles
  /\ outputFile \in SeedOutputs
  /\ limitArg \in BatchArgs
  /\ lookupOk = FALSE
  /\ BRIdle
  /\ LDOff
  /\ FXIdle

SpecRerun == InitRerun /\ [][NextResume]_vars

\* ----- the Loop Driver left alone: no signal, every child exits 0, every
\* lookup succeeds.  Node runs every settled await and the child process runs
\* to its end, so each step that can be taken is taken.
InitLoopFair ==
  /\ inputFile \in { FileOf(rs) : rs \in SeqsUpTo(PlainRows, MaxRows) }
  /\ outputFile = AbsentFile
  /\ limitArg = NanArg
  /\ lookupOk = TRUE
  /\ BRIdle
  /\ ld_pc = "countBefore"
  /\ ld_how = "none"
  /\ ld_exit = "none"
  /\ ldLimitArg \in LoopArgs
  /\ intervalSec = MaxInterval
  /\ stoppingRequested = FALSE
  /\ childRunning = FALSE
  /\ stopAfterChild = FALSE
  /\ code = "none"
  /\ s = 0
  /\ FXIdle

NextLoopFair ==
  \/ LDCountBefore
  \/ LDChildClosed
  \/ LDCountAfter
  \/ LDSleepDone
  \/ BRMain
  \/ BRFetch
  \/ BRWriteOpen
  \/ BRWriteRow
  \/ BRWriteEnd

SpecLoopFair ==
  InitLoopFair /\ [][NextLoopFair]_vars /\ WF_vars(NextLoopFair)

\* --------------------------------- one call of fetchBggXml, any I/O outcome
InitFetch ==
  /\ inputFile = AbsentFile
  /\ outputFile = AbsentFile
  /\ limitArg = NanArg
  /\ lookupOk = FALSE
  /\ BRIdle
  /\ LDOff
  /\ FXIdle

NextFetch ==
  \/ FXCall
  \/ FXRequest
  \/ FXSleepDone

SpecFetch == InitFetch /\ [][NextFetch]_vars

\* ================================================================== claims
\* The run wrote the whole file and exited 0.
RunWrote == br_pc = "done" /\ br_code = "0"

NotInBatch(i) == \A b \in 1..Len(toProcess) : toProcess[b] # i

\* The existing output row the run merges into input row i ({} if none).
ExistingFor(i) == MapGet(existingRows, IdOf(rows[i]))

Ceil(m, l) == (m + l - 1) \div l

\* C1: a run that completes its write leaves exactly as many output rows as
\* the input has, and the k-th output row carries the id of the k-th input
\* row, whatever the existing output, the limit and the lookup outcomes.
RowCountAndOrderPreserved ==
  RunWrote =>
    /\ outputFile.exists
    /\ ~outputFile.malformed
    /\ Len(readCsv(outputFile)) = Len(readCsv(inputFile))
    /\ \A k \in 1..Len(readCsv(inputFile)) :
         readCsv(outputFile)[k]["id"] = readCsv(inputFile)[k]["id"]

\* C1 witness: a finished run over two rows with different ids, an existing
\* output of another length, and at least one lookup.
RowCountAndOrderWitness ==
  /\ RunWrote
  /\ Len(rows) > 1
  /\ rows[1]["id"] # rows[2]["id"]
  /\ prevOutput.exists
  /\ Len(prevOutput.rows) > 0
  /\ Len(prevOutput.rows) # Len(rows)
  /\ lookups # << >>

\* C2 as claimed: a row that is complete in the existing output (same
\* position, same id) and is outside the work batch is written with all eight
\* enrichment fields exactly as the existing output had them.
CompletedRowsUnchanged ==
  RunWrote =>
    \A i \in 1..Len(rows) :
      ( /\ i <= Len(existingRows)
        /\ IdOf(existingRows[i]) = IdOf(rows[i])
        /\ isRowEnriched(existingRows[i])
        /\ NotInBatch(i) )
      => \A f \in EnrichSet : outputFile.rows[i][f] = Get(existingRows[i], f)

\* What the merge does write for a row outside the work batch whose last
\* existing output row with the same id is complete: each enrichment field
\* takes that existing row's value when it is non-empty, and the input row's
\* own value for the field (empty when the input has no such column)
\* otherwise.
CompletedRowsMergedForward ==
  RunWrote =>
    \A i \in 1..Len(rows) :
      ( /\ ExistingFor(i) # {}
        /\ isRowEnriched(CHOOSE e \in ExistingFor(i) : TRUE)
        /\ NotInBatch(i) )
      => LET e == CHOOSE r \in ExistingFor(i) : TRUE
         IN \A f \in EnrichSet :
              outputFile.rows[i][f] =
                IF Get(e, f) \notin {UNDEF, ""} THEN e[f]
                ELSE IF f \in DOMAIN rows[i] THEN rows[i][f]
                ELSE ""

\* C3 as claimed: a field that is non-empty in the existing output row with
\* the same id is never written empty by the run.
MergeNonDestructive ==
  RunWrote =>
    \A i \in 1..Len(rows) : \A f \in EnrichSet :
      ( /\ ExistingFor(i) # {}
        /\ Get(CHOOSE e \in ExistingFor(i) : TRUE, f) \notin {UNDEF, ""} )
      => outputFile.rows[i][f] # ""

\* C4 as claimed: with no empty id, every lookup succeeding and a limit
\* L >= 1, after ceil(M/L) runs no output row fails the completeness signal.
ResumeConvergence ==
  ( /\ RunWrote
    /\ lookupOk
    /\ BatchLimit(limitArg) >= 1
    /\ \A i \in 1..Len(rows) : IdOf(rows[i]) # ""
    /\ runs = Ceil(Len(rows), BatchLimit(limitArg)) )
  => \A i \in 1..Len(outputFile.rows) : isRowEnriched(readCsv(outputFile)[i])

\* C5 as claimed: left alone (no signal, every child exits 0, every lookup
\* succeeds with a description) the Loop Driver eventually ends with a
\* remaining count of zero, whatever the input and the limit.
LoopReachesDone ==
  <>(ld_pc = "finished" /\ ld_how \in {"allEnriched", "complete"})

\* A Batch Runner process is spawned in this step.
Launch == br_pc # "start" /\ br_pc' = "start"

CancelInFlightInv ==
  /\ childRunning => ld_pc = "awaitChild"
  /\ ld_pc = "finished" => (~childRunning /\ br_pc = "none")
  /\ (stopAfterChild /\ RunWrote) => outputFile = FileOf(writeCsvRows(enriched))

CancelInFlightAct ==
  /\ (stopAfterChild' # stopAfterChild) =>
       (stopAfterChild' /\ childRunning /\ UNCHANGED << brVars, outputFile, ld_pc >>)
  /\ stopAfterChild => ~Launch
  /\ (stopAfterChild /\ childRunning /\ ~childRunning') => ld_pc' = "finished"

\* C6: a SIGINT that arrives while the child runs only sets stopAfterChild:
\* the step leaves the child and the file untouched, the driver stays in its
\* await until the child has closed and never ends with a child alive, the
\* child's completed write is the whole row set, and once the flag is set no
\* further child is spawned: the driver ends when that child closes.
CancelInFlight == []CancelInFlightInv /\ [][CancelInFlightAct]_vars

\* C6 witness: the driver ended after the in-flight batch, whose full output
\* (two rows or more) is on disk, with rows still missing.
CancelInFlightWitness ==
  /\ ld_pc = "finished"
  /\ ld_how = "stopAfterChild"
  /\ stopAfterChild
  /\ code = "0"
  /\ Len(outputFile.rows) > 1
  /\ Len(outputFile.rows) = Len(inputFile.rows)
  /\ countMissing(inputFile, outputFile) > 0

\* C7 as claimed: once a SIGINT has arrived with no child running
\* (stoppingRequested is set), no Batch Runner is spawned any more.
NoLaunchAfterIdleSignal == [][stoppingRequested => ~Launch]_vars

\* The last child closed with a non-zero code or with none.
ChildFailed == br_pc \in {"done", "none"} /\ br_code \in {"1", "null"}

\* C8: once a child has closed with a non-zero code or without a code, no
\* further child is spawned, and the driver is over as soon as the close is
\* handled, whatever the remaining count and the cancellation flags.
SubprocessFailureFatal ==
  /\ []((ChildFailed /\ br_pc = "none") => ld_pc = "finished")
  /\ [][ChildFailed => ~Launch]_vars

\* C8 witness: the driver ended on a failed child with rows still missing and
\* a signal already recorded.
SubprocessFailureWitness ==
  /\ ld_pc = "finished"
  /\ ld_how = "childFailed"
  /\ br_code = "null"
  /\ stoppingRequested
  /\ ~CountRejects
  /\ countMissing(inputFile, outputFile) > 0

\* C9 as claimed: the Loop Driver exits 1 on a fatal error, a child that
\* exited non-zero included, and 0 otherwise.
LoopExitCodes ==
  ld_pc = "finished" =>
    /\ ld_how = "error" => ld_exit = "1"
    /\ (ld_how = "childFailed" /\ br_code = "1") => ld_exit = "1"
    /\ ld_how \notin {"error", "childFailed"} => ld_exit = "0"

\* C10 as claimed: whenever a run has stopped, the output file is either what
\* the run found or the complete new row set.
OutputReplacedAtomically ==
  br_pc = "done" =>
    \/ outputFile = prevOutput
    \/ outputFile = FileOf(writeCsvRows(enriched))

\* C11 as claimed: a run started with --limit=0 calls no lookup, and the
\* second of two such runs writes the row content the first one wrote.
MergeOnlyIdempotent ==
  limitArg = NumArg(0) =>
    /\ lookups = << >>
    /\ (RunWrote /\ runs = 2) => outputFile = prevOutput

\* The limit the interface promises for a parsed --limit argument: the number
\* itself when it is a non-negative integer, the default when it is absent or
\* malformed.
PromisedLimit(a) == IF a.nan THEN DefaultBatchLimit ELSE a.n

\* C12 as claimed: for a --limit that is a non-negative integer L (or absent
\* or malformed: the default), the work batch is the first min(L, missing) rows
\* that fail the completeness signal after the merge, in input order, and at
\* most L lookups are called.
WorkBatchSelection ==
  ( /\ br_pc \in {"fetch", "write", "done"}
    /\ rows # << >>
    /\ (limitArg.nan \/ limitArg.n >= 0) )
  => LET L == PromisedLimit(limitArg)
         missing == missingIndices(MergeAll(rows, existingRows))
     IN /\ toProcess = SubSeq(missing, 1, Min(L, Len(missing)))
        /\ Len(lookups) <= L

\* C13: one lookup issues at most 6 requests; request k+1 is issued only after
\* request k failed and after a sleep of k seconds; the call returns at the
\* first successful request with the data, and returns null exactly when 6
\* requests failed.
RetryContract ==
  /\ Len(requests) <= 6
  /\ Len(waits) \in {Len(requests) - 1, Len(requests)}
  /\ f_pc = "request" => Len(waits) = Len(requests)
  /\ \A k \in 1..Len(waits) : requests[k] # "ok" /\ waits[k] = k
  /\ \A k \in 1..Len(requests) : requests[k] = "ok" =>
       (k = Len(requests) /\ f_pc = "returned" /\ f_result = "data")
  /\ f_pc = "returned" =>
       /\ f_result \in {"data", "null"}
       /\ f_result = "data" <=> requests[Len(requests)] = "ok"
       /\ f_result = "null" <=>
            (Len(requests) = 6 /\ \A k \in 1..6 : requests[k] # "ok")
  /\ f_pc # "returned" => f_result = "none"

\* C13 witness: the call gave up after six failed requests of both kinds and
\* five sleeps.
RetryContractWitness ==
  /\ f_pc = "returned"
  /\ f_result = "null"
  /\ Len(requests) = 6
  /\ requests[1] = "notOk"
  /\ requests[6] = "throw"
  /\ waits = << 1, 2, 3, 4, 5 >>

\* The rows among the first n of the work batch that have an id, in order.
CalledIndices(n) ==
  SelectSeq(SubSeq(toProcess, 1, n), LAMBDA i : IdOf(rows[i]) # "")

\* C14: whatever the lookups return, the rows of the work batch that have an
\* id are looked up once each, in input order; a row whose lookup gave no
\* usable data has its eight enrichment fields empty; the run never exits 1
\* with part of the batch unhandled, and a run that ends its write has written
\* every row.
FetchFailureNeverAborts ==
  /\ [k \in 1..Len(lookups) |-> lookups[k].i] = CalledIndices(batchIdx)
  /\ \A k \in 1..Len(lookups) :
       /\ lookups[k].id = IdOf(rows[lookups[k].i])
       /\ k < Len(lookups) => lookups[k].i < lookups[k + 1].i
       /\ lookups[k].enrich = {} =>
            \A f \in EnrichSet : enriched[lookups[k].i][f] = ""
  /\ br_code = "1" => batchIdx = Len(toProcess)
  /\ RunWrote =>
       /\ batchIdx = Len(toProcess)
       /\ outputFile = FileOf(writeCsvRows(enriched))
       /\ Len(outputFile.rows) = Len(rows)

\* C14 witness: a finished run whose first lookup returned null, whose row
\* had a merged-forward value, and whose second lookup succeeded.
FetchFailureWitness ==
  /\ RunWrote
  /\ Len(lookups) = 2
  /\ lookups[1].enrich = {}
  /\ lookups[2].enrich = EnrichOf(lookups[2].id, {FullDoc})
  /\ ExistingFor(lookups[1].i) # {}
  /\ (CHOOSE e \in ExistingFor(lookups[1].i) : TRUE)["minage"] = "5"
  /\ outputFile.rows[lookups[1].i]["minage"] = ""
  /\ outputFile.rows[lookups[2].i]["description"] = "A"

\* Some row of outRows has the id of r and a description.
HasCompleteOutput(r, outRows) ==
  \E j \in 1..Len(outRows) :
    IdOf(outRows[j]) = IdOf(r) /\ isRowEnriched(outRows[j])

\* The input rows with an id whose output row by id (the last one with that
\* id) is absent or has no description, both files read afresh.
Remaining(input, output) ==
  LET inRows == ldReadCsv(input)
      outRows == ldReadCsv(output)
  IN { i \in 1..Len(inRows) :
         /\ IdOf(inRows[i]) # ""
         /\ \A o \in MapGet(outRows, IdOf(inRows[i])) : ~isRowEnriched(o) }

LoopDone == ld_pc = "finished" /\ ld_how \in {"allEnriched", "complete"}

\* C15: the Loop Driver ends as done only when both files are readable and
\* every input row with an id has an output row with that id and a
\* description; and it spawns a batch only when some input row with an id
\* still lacks its description in the output.
LoopDoneOnlyWhenComplete ==
  /\ [](LoopDone =>
         /\ ~CountRejects
         /\ Remaining(inputFile, outputFile) = {}
         /\ \A i \in 1..Len(ldReadCsv(inputFile)) :
              IdOf(ldReadCsv(inputFile)[i]) # "" =>
                HasCompleteOutput(ldReadCsv(inputFile)[i], ldReadCsv(outputFile)))
  /\ [][Launch => Remaining(inputFile, outputFile) # {}]_vars

\* C15 witness: the driver ended as done after a batch over an input that has
\* a row without an id and a row with one.
LoopDoneWitness ==
  /\ LoopDone
  /\ ld_how = "complete"
  /\ code = "0"
  /\ Len(outputFile.rows) = 2
  /\ \E i \in 1..2 : IdOf(inputFile.rows[i]) = ""
  /\ \E i \in 1..2 : IdOf(inputFile.rows[i]) # ""

\* A Batch Runner process exists and has not ended.
ChildAlive == br_pc \in {"start", "fetch", "write"}

SingleWriterInv ==
  /\ ChildAlive => (ld_pc = "awaitChild" /\ childRunning)
  /\ ld_pc \in {"countBefore", "countAfter"} => br_pc = "none"

SingleWriterAct ==
  /\ Launch => br_pc = "none"
  /\ (br_pc # "none" /\ br_pc' = "none") => br_pc = "done"
  /\ outputFile' # outputFile => (ChildAlive /\ ld_pc = "awaitChild")

\* C16: while a Batch Runner is alive the driver sits in its await, and it
\* reads the files for a count only when no child exists; a child is spawned
\* only when none exists, is forgotten only after it ended, and the output
\* file changes only in steps of the living child.
SingleWriter == []SingleWriterInv /\ [][SingleWriterAct]_vars

\* C16 witness: a second child is in the middle of its write while the
\* driver awaits it.
SingleWriterWitness ==
  /\ br_pc = "write"
  /\ code = "0"
  /\ ld_pc = "awaitChild"
  /\ Len(enriched) = 2
  /\ Len(outputFile.rows) = 1

FrameOfEnrichment ==
  /\ \A i \in 1..Len(enriched) :
       /\ i <= Len(rows)
       /\ DOMAIN enriched[i] \ EnrichSet = DOMAIN rows[i] \ EnrichSet
       /\ \A f \in DOMAIN rows[i] \ EnrichSet : enriched[i][f] = rows[i][f]
  /\ RunWrote =>
       /\ Len(outputFile.rows) = Len(readCsv(inputFile))
       /\ \A i \in 1..Len(outputFile.rows) :
            LET r == readCsv(inputFile)[i]
                o == outputFile.rows[i]
            IN /\ DOMAIN o \ EnrichSet = DOMAIN r \ EnrichSet
               /\ \A f \in DOMAIN r \ EnrichSet : o[f] = r[f]

\* C18 witness: a finished run with a lookup, and a row whose existing output
\* row carries another name and a description that was merged forward.
FrameWitness ==
  /\ RunWrote
  /\ lookups # << >>
  /\ \E i \in 1..Len(rows) :
       /\ ExistingFor(i) # {}
       /\ (CHOOSE e \in ExistingFor(i) : TRUE)["name"] = "m"
       /\ NotInBatch(i)
       /\ outputFile.rows[i]["name"] = "n"
       /\ outputFile.rows[i]["description"] # ""

\* What the lookup of call c returned for field f, "" if nothing.
FetchedOrEmpty(c, f) ==
  IF c.enrich = {} THEN ""
  ELSE LET v == (CHOOSE e \in c.enrich : TRUE)[f]
       IN IF v = UNDEF THEN "" ELSE v

\* C19: once a row of the work batch has been looked up, each of its eight
\* enrichment fields is the fetched value if the lookup returned one and the
\* empty string otherwise, in the working rows and in the written file,
\* whatever the merge had put there.
FetchOverwritesMerge ==
  \A k \in 1..Len(lookups) :
    LET c == lookups[k]
    IN /\ \A f \in EnrichSet : enriched[c.i][f] = FetchedOrEmpty(c, f)
       /\ RunWrote =>
            \A f \in EnrichSet : outputFile.rows[c.i][f] = FetchedOrEmpty(c, f)

\* C19 witness: a successful lookup that has a description and no minage
\* blanked a minage that the merge had carried forward.
FetchOverwritesWitness ==
  /\ RunWrote
  /\ \E k \in 1..Len(lookups) :
       /\ lookups[k].enrich = EnrichOf(lookups[k].id, {SparseDoc})
       /\ ExistingFor(lookups[k].i) # {}
       /\ (CHOOSE e \in ExistingFor(lookups[k].i) : TRUE)["minage"] = "5"
       /\ MergeAll(rows, existingRows)[lookups[k].i]["minage"] = "5"
       /\ outputFile.rows[lookups[k].i]["minage"] = ""
       /\ outputFile.rows[lookups[k].i]["description"] = "B"

\* C20: across a run that exits 0 and found the output path empty or
\* readable, the count the Loop Driver computes is not larger after the run
\* than before it, whatever the lookups returned.
RemainingNeverIncreases ==
  (RunWrote /\ ~prevOutput.malformed) =>
    countMissing(inputFile, outputFile) <= countMissing(inputFile, prevOutput)

\* C20 witness: a run over a non-empty existing output in which a lookup
\* failed and another row was complete; the count is as it was.
RemainingWitness ==
  /\ RunWrote
  /\ prevOutput.exists
  /\ ~prevOutput.malformed
  /\ Len(prevOutput.rows) > 0
  /\ \E k \in 1..Len(lookups) : lookups[k].enrich = {}
  /\ \E i \in 1..Len(rows) : isRowEnriched(outputFile.rows[i])
  /\ countMissing(inputFile, prevOutput) > 0
  /\ countMissing(inputFile, outputFile) = countMissing(inputFile, prevOutput)

\* The fetch loop of the run is over.
BatchHandled ==
  \/ br_pc = "fetch" /\ batchIdx = Len(toProcess)
  \/ br_pc = "write"
  \/ RunWrote

\* C21 as claimed: when the limit is at least 1 and some row with an id fails
\* the completeness signal after the merge, the run has called a lookup by
\* the end of its fetch loop (for a row with an id: no other is looked up).
RunMakesProgress ==
  ( /\ BatchHandled
    /\ BatchLimit(limitArg) >= 1
    /\ \E i \in 1..Len(rows) :
         /\ IdOf(rows[i]) # ""
         /\ ~isRowEnriched(MergeAll(rows, existingRows)[i]) )
  => lookups # << >>

\* The Loop Driver's count for the files the run found is zero.
CountZeroBefore ==
  /\ ~inputFile.malformed
  /\ ~prevOutput.malformed
  /\ countMissing(inputFile, prevOutput) = 0

\* C22: when the Loop Driver's remaining count for the pair of files is zero,
\* a Batch Runner run on these files has called no lookup at any point of its
\* fetch loop nor when it has written, and the file it writes has a non-empty
\* description in every row with a non-empty id.
CountsAgreeAtTermination ==
  /\ (br_pc = "fetch" /\ lookups # << >>) => ~CountZeroBefore
  /\ (RunWrote /\ CountZeroBefore) =>
       /\ lookups = << >>
       /\ \A i \in 1..Len(rows) :
            IdOf(rows[i]) # "" => isRowEnriched(outputFile.rows[i])

\* A run with a limit of at least 1 over files whose count is zero: the
\* output held two rows for one id, the input has a row with this id and a
\* row without id, which fills the work batch and is skipped.
CountsAgreeWitness ==
  /\ RunWrote
  /\ CountZeroBefore
  /\ BatchLimit(limitArg) >= 1
  /\ Len(prevOutput.rows) = 2
  /\ IdOf(prevOutput.rows[1]) = IdOf(prevOutput.rows[2])
  /\ ~isRowEnriched(prevOutput.rows[1])
  /\ toProcess # << >>
  /\ lookups = << >>
  /\ \E i \in 1..Len(rows) : IdOf(rows[i]) = IdOf(prevOutput.rows[1])
====
